---------------------------- MODULE Spec2Model ----------------------------
(***************************************************************************)
(* A model of scanner.go: main's segmentation of .rodata by relocation    *)
(* offsets, the per-segment decode attempt, and Processor.Process, which   *)
(* classifies each decompressed payload and writes its output files.       *)
(*                                                                         *)
(* A payload (the []byte handed to Process) is a record                    *)
(*   [len, cap, magic, count, entries]                                     *)
(* len and cap are the slice's length and capacity, magic and count the    *)
(* two little-endian int32 of its first 8 bytes, entries the 12-byte       *)
(* records that follow.  The bytes themselves stay abstract: a file's      *)
(* content is the byte range [lo, hi) of the payload decoded from one      *)
(* segment of .rodata.                                                     *)
(***************************************************************************)
EXTENDS Integers, Sequences, FiniteSets, TLC

VARIABLES
    pc,              \* "start", "loop", "done" or "panic": main's position
    rodataLen,       \* len(rodata)
    rodataCap,       \* cap(rodata)
    offsets,         \* main's offsets slice
    idx,             \* the range loop's position in offsets, from 1
    archiveCounter,  \* Processor.archiveCounter
    wholeCounter,    \* Processor.wholeCounter
    files,           \* the output tree: path -> content
    writes,          \* the paths handed to ioutil.WriteFile, in order
    dirs,            \* the paths handed to os.Mkdir, in order
    attempts,        \* the ranges <<prev, off>> handed to the flate reader
    processed,       \* the ranges whose payload was handed to Process
    last             \* what the latest loop iteration did

vars == <<pc, rodataLen, rodataCap, offsets, idx, archiveCounter,
          wholeCounter, files, writes, dirs, attempts, processed, last>>

-----------------------------------------------------------------------------
(* Program constants *)

ArchiveMinLen == 32768
MaxCount == 64
OpaqueMinLen == 128
MinSegment == 32
HeaderSize == 8
EntrySize == 12

\* the range of int32, the type of the header's and the entries' fields
MaxInt32 == 2147483647
MinInt32 == -MaxInt32 - 1

\* var names = map[int]string{...}: the name of id k is names[k + 1]
names ==
    << "fecs_data", "fecs_inst", "gpccs_data", "gpccs_inst",
       "sw_bundle_init", "sw_ctx", "sw_nonctx", "sw_method_init",
       "ctxreg_sys", "ctxreg_gpc", "ctxreg_tpc", "ctxreg_zcull_gpc",
       "ctxreg_pm_sys", "ctxreg_pm_gpc", "ctxreg_pm_tpc", "majorv",
       "buffer_size", "ctxsw_reg_base_index", "netlist_num", "ctxreg_ppc",
       "ctxreg_pmppc", "nvperf_ctxreg_sys", "nvperf_fbp_ctxregs",
       "nvperf_ctxreg_gpc", "nvperf_fbp_router", "nvperf_gpc_router",
       "ctxreg_pmltc", "ctxreg_pmfbpa", "swveidbundleinit",
       "nvperf_sys_router", "nvperf_pma", "ctxreg_pmrop", "ctxreg_pmucgpc",
       "ctxreg_etpc", "sw_bundle64_init", "nvperf_pmcau" >>

-----------------------------------------------------------------------------
(* Bounds and input sets *)

\* the number of relocations into .rodata
MaxRelocs == 2

\* the addends ParseRelocations returns
Addends == {-40, 31, 32, 64, 130}

\* len(rodata), and cap(rodata) - len(rodata)
RodataLens == {20, 64}
RodataSlack == {0, 44}

\* len(data), and cap(data) - len(data)
DataLens == {5, 127, 128, 32767, 32768}
DataSlack == {0, 16}

Magics == {0, 1}
Counts == {-1, 0, 64, 65}

\* the archive entries whose fields vary, and the counts they come with
TableEntries ==
    { [Id |-> 35, Length |-> 8,  Offset |-> 32],
      [Id |-> 0,  Length |-> 8,  Offset |-> 31],
      [Id |-> -1, Length |-> 8,  Offset |-> 19],
      [Id |-> 36, Length |-> 8,  Offset |-> 32760],
      [Id |-> 36, Length |-> 9,  Offset |-> 32760],
      [Id |-> 36, Length |-> 8,  Offset |-> MaxInt32],
      [Id |-> 35, Length |-> -1, Offset |-> 32] }
TableCounts == {1, 2}

\* payloads whose entry table, where there is one, holds filler entries only
PlainPayloads ==
    { [len |-> l, cap |-> l, magic |-> m, count |-> c, entries |-> <<>>] :
        l \in DataLens, m \in Magics, c \in Counts }

\* payloads that pass the header test and carry c varied entries
TablePayloads ==
    UNION { { [len |-> ArchiveMinLen, cap |-> ArchiveMinLen + s, magic |-> 0,
               count |-> c, entries |-> es] :
                s \in DataSlack, es \in [1..c -> TableEntries] } :
            c \in TableCounts }

Payloads == PlainPayloads \cup TablePayloads

\* the inputs of the longer runs: a section of three segments, and payloads
\* of each fate (dropped, written whole, rejected, emitted, aborting)
LongRodataLens == {96}
LongPayloads ==
    { p \in Payloads : /\ p.len \in {127, 128, ArchiveMinLen}
                       /\ p.cap = p.len
                       /\ p.magic = 0
                       /\ p.count \in {-1, 0, 1, MaxCount + 1} }

\* the k-th 12-byte record after the header: a varied entry, or filler
\* (a distinct unknown id and an empty slice right after the largest table)
EntryAt(data, k) ==
    IF k <= Len(data.entries)
      THEN data.entries[k]
      ELSE [Id |-> 100 + k, Length |-> 0,
            Offset |-> HeaderSize + EntrySize * MaxCount]

-----------------------------------------------------------------------------
(* Helpers of Process *)

\* int32 addition wraps around
Add32(a, b) ==
    IF b > 0 /\ a > MaxInt32 - b THEN (a + MinInt32) + (b + MinInt32)
    ELSE IF b < 0 /\ a < MinInt32 - b THEN (a - MinInt32) + (b - MinInt32)
    ELSE a + b

\* fmt.Sprintf("%0<w>d", n) for n >= 0
RECURSIVE ZeroPad(_, _)
ZeroPad(s, w) == IF Len(s) >= w THEN s ELSE ZeroPad("0" \o s, w)

\* path.Join(Destdir, fmt.Sprintf("whole_%03d", n)), relative to Destdir
WholeName(n) == "whole_" \o ZeroPad(ToString(n), 3)

\* path.Join(Destdir, fmt.Sprintf("archive_%02d", n)), relative to Destdir
ArchiveBase(n) == "archive_" \o ZeroPad(ToString(n), 2)

\* names[int(entry.Id)], or fmt.Sprintf("unk%d", entry.Id) when that is ""
EntryName(id) ==
    IF id \in 0..(Len(names) - 1) THEN names[id + 1]
                                  ELSE "unk" \o ToString(id)

\* path.Join(archbase, name)
EntryPath(archbase, id) == archbase \o "/" \o EntryName(id)

\* binary.Read(dataReader, binary.LittleEndian, &header): a short read
\* returns an error and leaves header zero
HeaderReadFails(data) == data.len < HeaderSize

Header(data) ==
    IF HeaderReadFails(data)
      THEN [Magic |-> 0, Count |-> 0]
      ELSE [Magic |-> data.magic, Count |-> data.count]

\* the condition of the first if of Process
NotArchiveHeader(data) ==
    \/ data.len < ArchiveMinLen
    \/ Header(data).Magic # 0
    \/ Header(data).Count > MaxCount

\* make([]ArchiveEntry, header.Count) panics on a negative length
MakeEntriesPanics(data) == Header(data).Count < 0

\* int32(8 + 12 * len(entries))
MinOffset(count) == HeaderSize + EntrySize * count

\* binary.Read of the k-th entry fails when the reader runs out of bytes
EntryReadFails(data, k) == HeaderSize + EntrySize * k > data.len

\* the parse loop returns at the first entry that cannot be read or whose
\* offset lies in the header or the entry table
EntryRejected(data, k) ==
    \/ EntryReadFails(data, k)
    \/ EntryAt(data, k).Offset < MinOffset(Header(data).Count)

\* a parse loop that looks at the first entry only
EntriesRejectedFirstOnly(data) ==
    Header(data).Count >= 1 /\ EntryRejected(data, 1)

EntriesRejected(data) ==
    \E k \in 1..Header(data).Count : EntryRejected(data, k)

\* a slice expression data[offset : length]
SliceHighIsLength(e) == e.Length

\* data[entry.Offset : entry.Offset+entry.Length]: the slice expression
\* panics unless 0 <= low <= high <= cap(data)
SliceLow(e) == e.Offset

SliceHigh(e) == Add32(e.Offset, e.Length)

SlicePanics(data, e) ==
    ~ (0 <= SliceLow(e) /\ SliceLow(e) <= SliceHigh(e)
                        /\ SliceHigh(e) <= data.cap)

\* ioutil.WriteFile(fname, content, 0666): creates or truncates fname
WriteFile(st, fname, content) ==
    [st EXCEPT !.files = [f \in DOMAIN st.files \cup {fname} |->
                             IF f = fname THEN content ELSE st.files[f]],
               !.writes = Append(st.writes, fname)]

\* os.Mkdir(archbase, 0777), its error ignored
Mkdir(st, dir) == [st EXCEPT !.dirs = Append(st.dirs, dir)]

-----------------------------------------------------------------------------
(* Processor.Process *)

\* the bytes [lo, hi) of the payload decoded from segment seg
Content(seg, lo, hi) == [seg |-> seg, lo |-> lo, hi |-> hi]

\* a size test that drops a payload of exactly 128 bytes too
ProcessOpaqueDropsAtMin(st, data, seg) ==
    IF data.len <= OpaqueMinLen
      THEN st
      ELSE [WriteFile(st, WholeName(st.wholeCounter),
                      Content(seg, 0, data.len))
              EXCEPT !.wholeCounter = st.wholeCounter + 1]

\* the first branch: drop a small payload, else dump the whole payload
ProcessOpaque(st, data, seg) ==
    IF data.len < OpaqueMinLen
      THEN st
      ELSE [WriteFile(st, WholeName(st.wholeCounter),
                      Content(seg, 0, data.len))
              EXCEPT !.wholeCounter = st.wholeCounter + 1]

\* the entry at which the write loop panics (its slice expression is out
\* of range), or Count + 1 when no entry does
PanicEntry(data) ==
    LET n == Header(data).Count
        bad == { k \in 1..n : SlicePanics(data, EntryAt(data, k)) }
    IN  IF bad = {} THEN n + 1
        ELSE CHOOSE k \in bad : \A j \in bad : k <= j

\* the write loop: entries 1 .. PanicEntry - 1 are written in order, a later
\* write to the same path replacing the earlier file
WriteEntries(st, data, seg, archbase) ==
    LET n == PanicEntry(data) - 1
        paths == <<>> \o [k \in 1..n |->
                            EntryPath(archbase, EntryAt(data, k).Id)]
        contentOf(k) == Content(seg, SliceLow(EntryAt(data, k)),
                                     SliceHigh(EntryAt(data, k)))
        lastOf(f) == CHOOSE k \in 1..n :
                        /\ paths[k] = f
                        /\ \A j \in (k + 1)..n : paths[j] # f
        new == { paths[k] : k \in 1..n }
    IN  [st EXCEPT !.files = [f \in DOMAIN st.files \cup new |->
                                IF f \in new THEN contentOf(lastOf(f))
                                             ELSE st.files[f]],
                   !.writes = st.writes \o paths]

\* an archive written without p.archiveCounter++
ProcessArchiveKeepsCounter(st, data, seg) ==
    LET archbase == ArchiveBase(st.archiveCounter)
        w == WriteEntries(Mkdir(st, archbase), data, seg, archbase)
    IN  IF PanicEntry(data) <= Header(data).Count
          THEN [w EXCEPT !.panicked = TRUE]
          ELSE w

\* the directory of the archive, one file per entry, p.archiveCounter++;
\* a slice expression that panics ends the run at that entry
ProcessArchive(st, data, seg) ==
    LET archbase == ArchiveBase(st.archiveCounter)
        w == WriteEntries(Mkdir(st, archbase), data, seg, archbase)
    IN  IF PanicEntry(data) <= Header(data).Count
          THEN [w EXCEPT !.panicked = TRUE]
          ELSE [w EXCEPT !.archiveCounter = st.archiveCounter + 1]

Process(st, data, seg) ==
    IF NotArchiveHeader(data) THEN ProcessOpaque(st, data, seg)
    ELSE IF MakeEntriesPanics(data) THEN [st EXCEPT !.panicked = TRUE]
    ELSE IF EntriesRejected(data) THEN st
    ELSE IF Header(data).Count = 0 THEN st
    ELSE ProcessArchive(st, data, seg)

-----------------------------------------------------------------------------
(* main *)

\* sort.Slice(offsets, less): the ascending permutation of s
RECURSIVE SortSlice(_)
SortSlice(s) ==
    IF s = <<>> THEN <<>>
    ELSE LET m == CHOOSE i \in 1..Len(s) : \A j \in 1..Len(s) : s[i] <= s[j]
             rest == [j \in 1..(Len(s) - 1) |-> IF j < m THEN s[j] ELSE s[j + 1]]
         IN  <<s[m]>> \o SortSlice(rest)

\* what ParseRelocations may return: any sequence of addends
RelocSeqs == UNION { [1..n -> Addends] : n \in 0..MaxRelocs }

\* var prev int64; if i > 0 { prev = offsets[i - 1] }
Prev == IF idx > 1 THEN offsets[idx - 1] ELSE 0
Off == offsets[idx]

\* rodata[prev:off] panics unless 0 <= prev <= off <= cap(rodata)
RodataSlicePanics == ~ (0 <= Prev /\ Prev <= Off /\ Off <= rodataCap)

InLoop == pc = "loop" /\ idx <= Len(offsets)

ProcessorState ==
    [archiveCounter |-> archiveCounter, wholeCounter |-> wholeCounter,
     files |-> files, writes |-> writes, dirs |-> dirs, panicked |-> FALSE]

NoData == [len |-> 0, cap |-> 0, magic |-> 0, count |-> 0, entries |-> <<>>]

Step(kind, data) ==
    [kind |-> kind, idx |-> idx, prev |-> Prev, off |-> Off, data |-> data]

InitFor(lens) ==
    /\ pc = "start"
    /\ rodataLen \in lens
    /\ \E s \in RodataSlack : rodataCap = rodataLen + s
    /\ offsets \in RelocSeqs
    /\ idx = 1
    /\ archiveCounter = 0
    /\ wholeCounter = 0
    /\ files = <<>>
    /\ writes = <<>>
    /\ dirs = <<>>
    /\ attempts = <<>>
    /\ processed = <<>>
    /\ last = [kind |-> "none", idx |-> 0, prev |-> 0, off |-> 0,
               data |-> NoData]

Init == InitFor(RodataLens)

LongInit == InitFor(LongRodataLens)

\* offsets = append(offsets, int64(len(rodata))); sort.Slice(...);
\* p := &Processor{Destdir: destdir}
Segment ==
    /\ pc = "start"
    /\ offsets' = SortSlice(Append(offsets, rodataLen))
    /\ pc' = "loop"
    /\ UNCHANGED <<rodataLen, rodataCap, idx, archiveCounter, wholeCounter,
                   files, writes, dirs, attempts, processed, last>>

\* if off - prev < 32 { continue }
SkipShort ==
    /\ InLoop
    /\ Off - Prev < MinSegment
    /\ idx' = idx + 1
    /\ last' = Step("short", NoData)
    /\ UNCHANGED <<pc, rodataLen, rodataCap, offsets, archiveCounter,
                   wholeCounter, files, writes, dirs, attempts, processed>>

\* rodata[prev:off] out of range: a run-time panic
SlicePanic ==
    /\ InLoop
    /\ ~ (Off - Prev < MinSegment)
    /\ RodataSlicePanics
    /\ pc' = "panic"
    /\ last' = Step("slicepanic", NoData)
    /\ UNCHANGED <<rodataLen, rodataCap, offsets, idx, archiveCounter,
                   wholeCounter, files, writes, dirs, attempts, processed>>

\* a decode error passed to must(): the run aborts
DecodeFailAborts ==
    /\ InLoop
    /\ ~ (Off - Prev < MinSegment)
    /\ ~ RodataSlicePanics
    /\ attempts' = Append(attempts, <<Prev, Off>>)
    /\ pc' = "panic"
    /\ last' = Step("decodefail", NoData)
    /\ UNCHANGED <<rodataLen, rodataCap, offsets, idx, archiveCounter,
                   wholeCounter, files, writes, dirs, processed>>

\* ioutil.ReadAll(flate.NewReader(...)) returns an error: continue
DecodeFail ==
    /\ InLoop
    /\ ~ (Off - Prev < MinSegment)
    /\ ~ RodataSlicePanics
    /\ attempts' = Append(attempts, <<Prev, Off>>)
    /\ idx' = idx + 1
    /\ last' = Step("decodefail", NoData)
    /\ UNCHANGED <<pc, rodataLen, rodataCap, offsets, archiveCounter,
                   wholeCounter, files, writes, dirs, processed>>

\* the segment inflates to data: p.Process(data)
DecodeOk(data) ==
    /\ InLoop
    /\ ~ (Off - Prev < MinSegment)
    /\ ~ RodataSlicePanics
    /\ attempts' = Append(attempts, <<Prev, Off>>)
    /\ processed' = Append(processed, <<Prev, Off>>)
    /\ LET r == Process(ProcessorState, data, <<Prev, Off>>) IN
         /\ archiveCounter' = r.archiveCounter
         /\ wholeCounter' = r.wholeCounter
         /\ files' = r.files
         /\ writes' = r.writes
         /\ dirs' = r.dirs
         /\ pc' = IF r.panicked THEN "panic" ELSE pc
         /\ idx' = IF r.panicked THEN idx ELSE idx + 1
    /\ last' = Step("process", data)
    /\ UNCHANGED <<rodataLen, rodataCap, offsets>>

\* the range loop is over: main returns
Finish ==
    /\ pc = "loop"
    /\ idx > Len(offsets)
    /\ pc' = "done"
    /\ UNCHANGED <<rodataLen, rodataCap, offsets, idx, archiveCounter,
                   wholeCounter, files, writes, dirs, attempts, processed,
                   last>>

Next ==
    \/ Segment
    \/ SkipShort
    \/ SlicePanic
    \/ DecodeFail
    \/ \E data \in Payloads : DecodeOk(data)
    \/ Finish

Spec == Init /\ [][Next]_vars

\* longer runs over fewer payloads
LongNext ==
    \/ Segment
    \/ SkipShort
    \/ SlicePanic
    \/ DecodeFail
    \/ \E data \in LongPayloads : DecodeOk(data)
    \/ Finish

LongSpec == LongInit /\ [][LongNext]_vars

\* main is straight-line code: a step that can be taken is taken
FairLongSpec == LongSpec /\ WF_vars(LongNext)

-----------------------------------------------------------------------------
(* Vocabulary of the properties *)

\* this step is a call of Process, on the payload last'.data decoded from
\* the segment <<last'.prev, last'.off>>
Called == last' # last /\ last'.kind = "process"
CalledSeg == <<last'.prev, last'.off>>

\* the header passes the archive test: magic 0, 0 < count <= 64, and a
\* payload of at least 32768 bytes
HeaderValid(d) ==
    d.len >= 32768 /\ d.magic = 0 /\ 0 < d.count /\ d.count <= 64

\* some entry of the table points into the header or the table
SomeOffsetTooLow(d) ==
    \E k \in 1..d.count : EntryAt(d, k).Offset < 8 + 12 * d.count

\* whole_<n>, n printed with at least three digits
WholeFile(n) ==
    "whole_" \o (IF n < 10 THEN "00" ELSE IF n < 100 THEN "0" ELSE "")
             \o ToString(n)

\* archive_<n>, n printed with at least two digits
ArchiveDir(n) == "archive_" \o (IF n < 10 THEN "0" ELSE "") \o ToString(n)

\* the step leaves the output tree and both counters as they were, and the
\* run goes on with the next segment
NothingWritten ==
    /\ files' = files /\ writes' = writes /\ dirs' = dirs
    /\ archiveCounter' = archiveCounter /\ wholeCounter' = wholeCounter
    /\ pc' = "loop" /\ idx' = idx + 1

\* the step writes the whole payload d as whole_<wholeCounter> and nothing
\* else, advances wholeCounter, and the run goes on with the next segment
WholeWritten(d) ==
    /\ writes' = Append(writes, WholeFile(wholeCounter))
    /\ WholeFile(wholeCounter) \notin DOMAIN files
    /\ DOMAIN files' = DOMAIN files \cup {WholeFile(wholeCounter)}
    /\ \A f \in DOMAIN files : files'[f] = files[f]
    /\ files'[WholeFile(wholeCounter)] = Content(CalledSeg, 0, d.len)
    /\ dirs' = dirs
    /\ wholeCounter' = wholeCounter + 1
    /\ archiveCounter' = archiveCounter
    /\ pc' = "loop" /\ idx' = idx + 1

\* the payload d is handled as Opaque
HandledOpaque(d) == IF d.len < 128 THEN NothingWritten ELSE WholeWritten(d)

-----------------------------------------------------------------------------
(* C1: every payload whose header fails the archive test (magic # 0, count  *)
(* > 64, count <= 0, or fewer than 32768 bytes) is handled as Opaque:      *)
(* dropped below 128 bytes, else written whole as whole_<wholeCounter>,    *)
(* and none of them aborts the run.                                        *)
C1_InvalidHeaderIsOpaque ==
    [][Called /\ ~ HeaderValid(last'.data) => HandledOpaque(last'.data)]_vars

FailsHeadTest(d) == d.len < 32768 \/ d.magic # 0 \/ d.count > 64

-----------------------------------------------------------------------------
EmitsArchive == Called /\ pc' = "loop" /\ Len(dirs') = Len(dirs) + 1

(* C3: archiveCounter starts at 0, a step advances it by exactly one when   *)
(* it emits an archive and leaves it alone otherwise, and the directories   *)
(* created are archive_00, archive_01, ... in processing order (a run that *)
(* aborts inside an archive has created that archive's directory too).     *)
C3_ArchiveIndices ==
    /\ [](pc = "start" => archiveCounter = 0)
    /\ [](\A k \in 1..Len(dirs) : dirs[k] = ArchiveDir(k - 1))
    /\ [](\/ Len(dirs) = archiveCounter
          \/ pc = "panic" /\ Len(dirs) = archiveCounter + 1)
    /\ [][archiveCounter' = IF EmitsArchive THEN archiveCounter + 1
                                            ELSE archiveCounter]_vars

\* three payloads were processed: the first and the third were emitted as
\* archive_00 and archive_01, the second left nothing
C3_Witness ==
    /\ Len(processed) = 3 /\ pc = "done"
    /\ archiveCounter = 2 /\ wholeCounter = 0
    /\ dirs = <<"archive_00", "archive_01">>
    /\ Len(writes) = 2
    /\ files[writes[1]].seg = processed[1]
    /\ files[writes[2]].seg = processed[3]

AcceptedArchive(d) == HeaderValid(d) /\ ~ SomeOffsetTooLow(d)

DistinctIds(d) ==
    \A j, k \in 1..d.count :
        j # k => EntryAt(d, j).Id # EntryAt(d, k).Id

InBounds(d) ==
    \A k \in 1..d.count :
        /\ 0 <= EntryAt(d, k).Offset
        /\ 0 <= EntryAt(d, k).Length
        /\ EntryAt(d, k).Length <= d.len - EntryAt(d, k).Offset

NameOfId(id) ==
    IF 0 <= id /\ id <= 35 THEN names[id + 1] ELSE "unk" \o ToString(id)

EntryFile(d, k) ==
    ArchiveDir(archiveCounter) \o "/" \o NameOfId(EntryAt(d, k).Id)

ArchiveWritten(d) ==
    /\ writes' = writes \o [k \in 1..d.count |-> EntryFile(d, k)]
    /\ DOMAIN files' = DOMAIN files \cup { EntryFile(d, k) : k \in 1..d.count }
    /\ Cardinality(DOMAIN files' \ DOMAIN files) = d.count
    /\ \A k \in 1..d.count :
          files'[EntryFile(d, k)] =
              Content(CalledSeg, EntryAt(d, k).Offset,
                      EntryAt(d, k).Offset + EntryAt(d, k).Length)
    /\ \A f \in DOMAIN files : files'[f] = files[f]
    /\ dirs' = Append(dirs, ArchiveDir(archiveCounter))
    /\ archiveCounter' = archiveCounter + 1
    /\ wholeCounter' = wholeCounter
    /\ pc' = "loop" /\ idx' = idx + 1

(* C4: an accepted archive whose entries have pairwise distinct ids and     *)
(* in-bounds offset/length pairs yields exactly count files in             *)
(* archive_<archiveCounter>, one per entry, each holding                    *)
(* payload[offset : offset+length] and named names[id] for id in 0..35 and *)
(* unk<id> otherwise.                                                      *)
C4_ArchiveRoundTrip ==
    [][Called /\ AcceptedArchive(last'.data) /\ DistinctIds(last'.data)
              /\ InBounds(last'.data)
         => ArchiveWritten(last'.data)]_vars

\* a two-entry archive, one id in the table and one outside it, was written
\* as the second archive of the run
C4_Witness ==
    /\ last.kind = "process" /\ pc = "loop"
    /\ AcceptedArchive(last.data) /\ InBounds(last.data)
    /\ last.data.count = 2
    /\ EntryAt(last.data, 1).Id = 35 /\ EntryAt(last.data, 2).Id = 36
    /\ archiveCounter = 2
    /\ "archive_01/nvperf_pmcau" \in DOMAIN files
    /\ "archive_01/unk36" \in DOMAIN files
    /\ files["archive_01/unk36"].hi = 32768

(* C5: no output path is written twice in a run.                           *)
C5_NoPathWrittenTwice ==
    \A i, j \in 1..Len(writes) : i # j => writes[i] # writes[j]

\* offset + length > len(payload), in unbounded arithmetic
Overruns(d, k) == EntryAt(d, k).Length > d.len - EntryAt(d, k).Offset

FirstOverrun(d) ==
    CHOOSE k \in 1..d.count :
        Overruns(d, k) /\ \A j \in 1..(k - 1) : ~ Overruns(d, j)

(* C7: when an accepted archive has an entry whose offset+length exceeds   *)
(* the payload size, the run aborts at that entry: that entry and the      *)
(* later ones are not written, no later segment is processed, and          *)
(* archiveCounter is not advanced.                                         *)
C7_OverrunAborts ==
    [][Called /\ AcceptedArchive(last'.data)
              /\ (\E k \in 1..last'.data.count : Overruns(last'.data, k))
         => /\ pc' = "panic"
            /\ idx' = idx
            /\ archiveCounter' = archiveCounter
            /\ Len(writes') < Len(writes) + FirstOverrun(last'.data)]_vars

(* C8: the segmentation stage never aborts the run: slicing .rodata by the *)
(* sorted offsets never fails.                                             *)
C8_SegmentationNeverFails == last.kind # "slicepanic"

Pairs ==
    [k \in 1..Len(offsets) |->
        <<IF k = 1 THEN 0 ELSE offsets[k - 1], offsets[k]>>]

IsLong(r) == r[2] - r[1] >= 32

LongPairs == SelectSeq(Pairs, IsLong)

SegmentationOver == pc = "done" \/ last.kind = "slicepanic"

(* C9: the ranges handed to the decoder are exactly the consecutive pairs  *)
(* [prev, off) of the sorted offsets that are at least 32 bytes long, in   *)
(* ascending order; they do not overlap, they lie within [0, sentinel),    *)
(* and every byte of [0, sentinel) outside them lies in a pair shorter     *)
(* than 32 bytes.                                                          *)
C9_SegmentsPartition ==
    SegmentationOver =>
        /\ attempts = LongPairs
        /\ \A i, j \in 1..Len(attempts) :
              i < j => attempts[i][2] <= attempts[j][1]
        /\ \A i \in 1..Len(attempts) :
              0 <= attempts[i][1] /\ attempts[i][2] <= rodataLen
        /\ \A b \in 0..(rodataLen - 1) :
              \/ \E i \in 1..Len(attempts) :
                    attempts[i][1] <= b /\ b < attempts[i][2]
              \/ \E k \in 1..Len(Pairs) :
                    /\ ~ IsLong(Pairs[k])
                    /\ Pairs[k][1] <= b /\ b < Pairs[k][2]

DecodeFailed == last' # last /\ last'.kind = "decodefail"

(* C10: a segment that fails to decompress is skipped: Process is not      *)
(* called for it, nothing is written, both counters stay, and the loop     *)
(* goes on with the next segment; a run that reaches the end of the loop   *)
(* has attempted every segment exactly once in ascending order, and every  *)
(* run ends.                                                               *)
C10_DecodeFailureSkips ==
    /\ [][DecodeFailed =>
            /\ NothingWritten
            /\ processed' = processed
            /\ attempts' = Append(attempts, <<last'.prev, last'.off>>)]_vars
    /\ [](pc = "done" => attempts = LongPairs)
    /\ (last.kind = "decodefail" ~> (pc = "done" \/ pc = "panic"))

\* the first of three segments failed to decompress, the other two were
\* processed and written, and main returned
C10_Witness ==
    /\ pc = "done"
    /\ Len(attempts) = 3
    /\ processed = <<attempts[2], attempts[3]>>
    /\ Len(writes) = 2
    /\ files[writes[1]].seg = attempts[2]
    /\ files[writes[2]].seg = attempts[3]

=============================================================================
